---- MODULE Spec2Model ----
(***************************************************************************)
(* A model of the blogin comment and post services.                        *)
(*                                                                         *)
(* The routers (HTTP boundary) and the schemas are translated from their   *)
(* code.  The service layer the routers call (CommentService, the          *)
(* post_service functions, the comment service's get_current_user) is not  *)
(* part of the sources at hand; those operators are written from the       *)
(* design document and are marked "service layer" below.                   *)
(*                                                                         *)
(* Optional values (Python's Optional[T]) are sets: {} is None and {x} is  *)
(* the value x.  A uuid.UUID is a small integer; the text of a UUID is a   *)
(* pair <<n, form>>, see UuidStrings.  created_at / updated_at are not     *)
(* modelled: comment ids are handed out in creation order.                 *)
(***************************************************************************)
EXTENDS Integers, Sequences, FiniteSets, TLC

VARIABLES
    comments,   \* comments.comments table: id -> row (models.py Comment)
    posts,      \* posts table: id -> row
    next_post,  \* number of post ids handed out so far (uuid4 never repeats)
    reqs,       \* in-flight get_post requests: position and the loaded Post
    resp,       \* the last HTTP response sent
    walk,       \* call stack of build_comment_tree
    out         \* result of the last listing / schema construction

vars == <<comments, posts, next_post, reqs, resp, walk, out>>

---------------------------------------------------------------------------
(* Bounds of the model *)

NUsers == 2
MaxComments == 2
MaxTime == 1

Users == 1 .. NUsers
CommentPosts == 1 .. 2          \* post ids seen by the comment service
Times == 1 .. MaxTime           \* values of datetime.utcnow()
Contents == {"a", "b"}          \* valid comment texts (1..5000 characters)
BodyContents == Contents \cup {""}

---------------------------------------------------------------------------
(* Optional values and UUID texts *)

None == {}
Some(x) == {x}
Get(o) == CHOOSE x \in o : TRUE

\* The texts uuid.UUID() accepts for user n: the canonical lower-case form
\* str() produces, and any other accepted spelling (upper case, braces, urn).
UuidStrings == {<<u, f>> : u \in Users, f \in {"canon", "upper"}}

\* uuid.UUID(text): the UUID a text denotes, whatever its spelling.
uuid_UUID(s) == s[1]

\* str(uuid): always the canonical spelling.
str(u) == <<u, "canon">>

Max(S) == CHOOSE x \in S : \A y \in S : y <= x

\* The elements of a finite set of integers in ascending order.
RECURSIVE Ordered(_)
Ordered(S) ==
    IF S = {} THEN <<>>
    ELSE LET m == CHOOSE x \in S : \A y \in S : x <= y
         IN <<m>> \o Ordered(S \ {m})

---------------------------------------------------------------------------
(* Responses *)

\* op: the handler; status: the HTTP status; user: the authenticated caller
\* (0: none); id: the record asked for or created (0: none); data: the ids
\* (or the number) the response carries.  Two fields log the request it
\* answers: extra, a stray author_id the request body carried, and auth, what
\* the Authorization header held ("n/a" where the handler reads none).
Response(op, status, user, id, data) ==
    [op |-> op, status |-> status, user |-> user, id |-> id, data |-> data,
     extra |-> {}, auth |-> "n/a"]

NoResponse == Response("none", 0, 0, 0, {})

IdleWalk == [pc |-> "idle", stack |-> <<>>, visits |-> <<>>]
NoOut == [op |-> "none"]

---------------------------------------------------------------------------
(* Pagination arithmetic of the routers *)

\* comments.py get_comments_by_post: Query(1, ge=1), Query(20, ge=1, le=100)
CommentsQueryValid(page, page_size) ==
    page >= 1 /\ page_size >= 1 /\ page_size <= 100

\* comments.py: total_pages = (result["total"] + page_size - 1) // page_size
CommentsTotalPages(total, page_size) == (total + page_size - 1) \div page_size

\* posts.py list_all_posts / get_posts_by_author_id: Query(1, ge=1) and
\* Query(20, ge=1, le=100)
PostsQueryValid(page, limit) == page >= 1 /\ limit >= 1 /\ limit <= 100

\* service layer, offset/limit of a listing query: the rows after the first
\* `skip`, at most `limit` of them.
Slice(rows, skip, limit) ==
    LET lo == skip + 1
        hi == IF skip + limit < Len(rows) THEN skip + limit ELSE Len(rows)
    IN [i \in 1 .. (IF hi >= lo THEN hi - lo + 1 ELSE 0) |-> rows[lo + i - 1]]

Range(s) == {s[i] : i \in DOMAIN s}

\* comments.py get_comments_by_post on the rows the query matches: the
\* PaginatedResponse.  service.get_by_post returns the page's items, the
\* total, and the page and page_size it was given.
CommentsListing(rows, page, page_size) ==
    LET result == [items |-> Slice(rows, (page - 1) * page_size, page_size),
                   total |-> Len(rows), page |-> page, page_size |-> page_size]
        total_pages == CommentsTotalPages(result.total, page_size)
    IN [data |-> result.items, total |-> result.total, page |-> result.page,
        page_size |-> result.page_size, total_pages |-> total_pages]

\* The pagination object with total_pages rounded down.
PostsPaginationFloor(total, page, limit) ==
    LET total_pages == total \div limit
    IN [total |-> total, page |-> page, limit |-> limit,
        total_pages |-> total_pages,
        has_next |-> page < total_pages,
        has_prev |-> page > 1]

\* posts.py list_all_posts / get_posts_by_author_id: total_pages and the
\* "pagination" object
PostsPagination(total, page, limit) ==
    LET total_pages == (total + limit - 1) \div limit
    IN [total |-> total, page |-> page, limit |-> limit,
        total_pages |-> total_pages,
        has_next |-> page < total_pages,
        has_prev |-> page > 1]

\* posts.py list_all_posts / get_posts_by_author_id on the rows the query
\* matches: skip = (page - 1) * limit, the items and the pagination.
PostsListing(rows, page, limit) ==
    LET skip == (page - 1) * limit
        results == Slice(rows, skip, limit)
        total == Len(rows)
    IN [items |-> results, pagination |-> PostsPagination(total, page, limit)]

---------------------------------------------------------------------------
(* Comment service *)

\* schemas.py CommentCreate: content, post_id, parent_id; any other field of
\* the request body is ignored.
CommentCreate(body) ==
    [content |-> body.content, post_id |-> body.post_id,
     parent_id |-> body.parent_id]

\* schemas.py CommentBase / CommentUpdate: Field(min_length=1, max_length=5000)
ValidContent(c) == c \in Contents

\* service layer, CommentService.get_by_id: an active read, so a soft-deleted
\* row is not found.
get_by_id(store, id) ==
    IF id \in DOMAIN store /\ ~store[id].is_deleted THEN Some(id) ELSE None

NextCommentId(store) == Max(DOMAIN store \cup {0}) + 1

\* service layer, CommentService.create: a new row owned by author_id.
service_create(store, obj_in, author_id) ==
    LET id == NextCommentId(store)
        row == [post_id |-> Get(obj_in.post_id), author_id |-> author_id,
                parent_id |-> obj_in.parent_id, content |-> obj_in.content,
                is_deleted |-> FALSE, edited_at |-> None]
    IN [i \in DOMAIN store \cup {id} |-> IF i = id THEN row ELSE store[i]]

\* service layer, CommentService.update: new content and edited_at = now.
service_update(store, id, comment_in, now) ==
    IF comment_in.content = None THEN store
    ELSE [store EXCEPT ![id].content = Get(comment_in.content),
                       ![id].edited_at = Some(now)]

\* service layer, CommentService.delete: soft delete by the author only;
\* returns <<success, store>>.
service_delete(store, comment_id, author_id) ==
    LET found == get_by_id(store, comment_id)
    IN IF found = None \/ store[comment_id].author_id # author_id
       THEN <<FALSE, store>>
       ELSE <<TRUE, [store EXCEPT ![comment_id].is_deleted = TRUE]>>

\* service layer: the active replies of a comment.
Replies(store, id) ==
    {d \in DOMAIN store : store[d].parent_id = Some(id) /\ ~store[d].is_deleted}

\* service layer, CommentService.build_comment_tree: the comment and,
\* recursively, the trees of its active replies (here: the ids in the tree).
RECURSIVE build_comment_tree(_, _)
build_comment_tree(store, id) ==
    {id} \cup UNION {build_comment_tree(store, d) : d \in Replies(store, id)}

\* service layer, CommentService.get_by_post: the active comments of a post,
\* oldest first.
ActiveOfPost(store, post_id) ==
    Ordered({c \in DOMAIN store :
               store[c].post_id = post_id /\ ~store[c].is_deleted})

\* service layer, CommentService.get_comment_count_by_post
CommentCount(store, post_id) == Len(ActiveOfPost(store, post_id))

CommentFrame == UNCHANGED <<posts, next_post, reqs, walk, out>>

\* The request bodies of POST /comments: the schema's fields and a stray
\* author_id field a client may add.
CreateBodies ==
    [content : BodyContents,
     post_id : {None} \cup {Some(p) : p \in CommentPosts},
     parent_id : {None, Some(0)} \cup {Some(c) : c \in DOMAIN comments},
     author_id : {None} \cup {Some(u) : u \in Users}]

\* create_comment as it would be if the row's author were read from the
\* request body when the body names one.
create_comment_trusting_body(sub, body) ==
    /\ Cardinality(DOMAIN comments) < MaxComments
    /\ ValidContent(body.content)
    /\ body.post_id # None
    /\ LET caller == uuid_UUID(sub)
           author_id == IF body.author_id # None THEN Get(body.author_id) ELSE caller
       IN /\ comments' = service_create(comments, CommentCreate(body), author_id)
          /\ resp' = [Response("create_comment", 200, caller,
                               NextCommentId(comments), {})
                        EXCEPT !.extra = body.author_id]
    /\ CommentFrame

\* comments.py create_comment (POST /comments)
create_comment(sub, body) ==
    /\ Cardinality(DOMAIN comments) < MaxComments
    /\ IF ~ValidContent(body.content)
       THEN /\ resp' = Response("create_comment", 422, uuid_UUID(sub), 0, {})
            /\ UNCHANGED comments
       ELSE LET comment_in == CommentCreate(body)
                author_id == uuid_UUID(sub)
            IN IF comment_in.post_id = None
               THEN \* no row without a post_id (nullable=False)
                    /\ \E st \in {400, 500} :
                          resp' = Response("create_comment", st, author_id, 0, {})
                    /\ UNCHANGED comments
               ELSE /\ comments' = service_create(comments, comment_in, author_id)
                    /\ resp' = [Response("create_comment", 200, author_id,
                                         NextCommentId(comments), {})
                                  EXCEPT !.extra = body.author_id]
    /\ CommentFrame

\* comments.py create_comment_by_post (POST /comments/post/{post_id})
create_comment_by_post(post_id, sub, body) ==
    /\ Cardinality(DOMAIN comments) < MaxComments
    /\ IF ~ValidContent(body.content)
       THEN /\ resp' = Response("create_comment_by_post", 422, uuid_UUID(sub), 0, {})
            /\ UNCHANGED comments
       ELSE LET comment_data == CommentCreate(body)
                comment_with_post == [comment_data EXCEPT !.post_id = Some(post_id)]
                author_id == uuid_UUID(sub)
            IN /\ comments' = service_create(comments, comment_with_post, author_id)
               /\ resp' = [Response("create_comment_by_post", 200, author_id,
                                    NextCommentId(comments), {})
                             EXCEPT !.extra = body.author_id]
    /\ CommentFrame

\* comments.py get_comments_by_post (GET /comments/post/{post_id})
get_comments_by_post(post_id, page, page_size) ==
    /\ IF ~CommentsQueryValid(page, page_size)
       THEN resp' = Response("get_comments_by_post", 422, 0, post_id, {})
       ELSE LET r == CommentsListing(ActiveOfPost(comments, post_id), page, page_size)
            IN resp' = Response("get_comments_by_post", 200, 0, post_id, Range(r.data))
    /\ UNCHANGED comments
    /\ CommentFrame

\* comments.py get_comment (GET /comments/{comment_id})
get_comment(comment_id, include_replies) ==
    /\ IF get_by_id(comments, comment_id) = None
       THEN resp' = Response("get_comment", 404, 0, comment_id, {})
       ELSE IF include_replies
            THEN resp' = Response("get_comment", 200, 0, comment_id,
                                  build_comment_tree(comments, comment_id))
            ELSE resp' = Response("get_comment", 200, 0, comment_id, {comment_id})
    /\ UNCHANGED comments
    /\ CommentFrame

\* update_comment as it would be without the comparison of the author with
\* the caller.
update_comment_unchecked(comment_id, sub, comment_in, now) ==
    /\ IF comment_in.content = None THEN TRUE
       ELSE ValidContent(Get(comment_in.content))
    /\ IF get_by_id(comments, comment_id) = None
       THEN /\ resp' = Response("update_comment", 404, uuid_UUID(sub), comment_id, {})
            /\ UNCHANGED comments
       ELSE /\ comments' = service_update(comments, comment_id, comment_in, now)
            /\ resp' = Response("update_comment", 200, uuid_UUID(sub), comment_id, {})
    /\ CommentFrame

\* comments.py update_comment (PUT /comments/{comment_id})
update_comment(comment_id, sub, comment_in, now) ==
    /\ IF comment_in.content # None /\ ~ValidContent(Get(comment_in.content))
       THEN /\ resp' = Response("update_comment", 422, uuid_UUID(sub), comment_id, {})
            /\ UNCHANGED comments
       ELSE IF get_by_id(comments, comment_id) = None
       THEN /\ resp' = Response("update_comment", 404, uuid_UUID(sub), comment_id, {})
            /\ UNCHANGED comments
       ELSE IF str(comments[comment_id].author_id) # sub
       THEN /\ resp' = Response("update_comment", 403, uuid_UUID(sub), comment_id, {})
            /\ UNCHANGED comments
       ELSE /\ comments' = service_update(comments, comment_id, comment_in, now)
            /\ resp' = Response("update_comment", 200, uuid_UUID(sub), comment_id, {})
    /\ CommentFrame

\* delete_comment as it would be if a successful delete removed the row.
delete_comment_hard(comment_id, sub) ==
    LET r == service_delete(comments, comment_id, uuid_UUID(sub))
    IN /\ comments' = IF r[1]
                      THEN [i \in DOMAIN comments \ {comment_id} |-> comments[i]]
                      ELSE comments
       /\ resp' = Response("delete_comment", IF r[1] THEN 200 ELSE 404,
                           uuid_UUID(sub), comment_id, {})
       /\ CommentFrame

\* comments.py delete_comment (DELETE /comments/{comment_id})
delete_comment(comment_id, sub) ==
    LET r == service_delete(comments, comment_id, uuid_UUID(sub))
    IN /\ comments' = r[2]
       /\ resp' = Response("delete_comment", IF r[1] THEN 200 ELSE 404,
                           uuid_UUID(sub), comment_id, {})
       /\ CommentFrame

\* comments.py get_comment_count (GET /comments/post/{post_id}/count)
get_comment_count(post_id) ==
    /\ resp' = Response("get_comment_count", 200, 0, post_id,
                        {CommentCount(comments, post_id)})
    /\ UNCHANGED comments
    /\ CommentFrame

CommentIdsAsked == 1 .. MaxComments
UpdateBodies == [content : {None} \cup {Some(c) : c \in BodyContents}]

CommentInit ==
    /\ comments = <<>>
    /\ posts = <<>>
    /\ next_post = 0
    /\ reqs = <<>>
    /\ resp = NoResponse
    /\ walk = IdleWalk
    /\ out = NoOut

CommentNext ==
    \/ \E sub \in UuidStrings, body \in CreateBodies : create_comment(sub, body)
    \/ \E p \in CommentPosts, sub \in UuidStrings, body \in CreateBodies :
          create_comment_by_post(p, sub, body)
    \/ \E p \in CommentPosts, page \in 1 .. 2, page_size \in {0, 1, 20, 101} :
          get_comments_by_post(p, page, page_size)
    \/ \E c \in CommentIdsAsked, ir \in BOOLEAN : get_comment(c, ir)
    \/ \E c \in CommentIdsAsked, sub \in UuidStrings, b \in UpdateBodies, t \in Times :
          update_comment(c, sub, b, t)
    \/ \E c \in CommentIdsAsked, sub \in UuidStrings : delete_comment(c, sub)
    \/ \E p \in CommentPosts : get_comment_count(p)

CommentSpec == CommentInit /\ [][CommentNext]_vars

---------------------------------------------------------------------------
(* Post service *)

MaxPosts == 2
NReqs == 2

PostIds == 1 .. MaxPosts
Reqs == 1 .. NReqs
Titles == {"t1", "t2"}

\* Bearer tokens: sig says whether jwt.decode accepts the token (signature,
\* expiry, claim types); sub is the payload's "sub" claim, if any.
JunkText == <<0, "junk">>
Tokens == [sig : {"good"},
           sub : {None} \cup {Some(s) : s \in UuidStrings \cup {JunkText}}]
          \cup [sig : {"bad"}, sub : {None, Some(str(1))}]

\* The Authorization header: absent, or a bearer token.
Credentials == {None} \cup {Some(t) : t \in Tokens}

\* Whether uuid.UUID(text) returns (it raises ValueError otherwise).
IsUuidText(s) == s[2] \in {"canon", "upper"}

\* posts.py get_current_user_id: [status |-> 200, user |-> id] or the status
\* of the failure.  jwt.decode raising JWTError and a missing sub give 401;
\* uuid.UUID raising ValueError is caught by nothing and gives 500.
get_current_user_id(token) ==
    IF token.sig # "good" THEN [status |-> 401, user |-> 0]
    ELSE IF token.sub = None THEN [status |-> 401, user |-> 0]
    ELSE IF ~IsUuidText(Get(token.sub)) THEN [status |-> 500, user |-> 0]
    ELSE [status |-> 200, user |-> uuid_UUID(Get(token.sub))]

\* fastapi HTTPBearer() without an Authorization header: the status the
\* design document gives for an absent token.  (HTTPBearer is the framework's
\* code; its older releases answer 403 "Not authenticated" instead.)
HTTPBearerMissing == 401

\* What the Authorization header of a request held.
CredentialClass(credentials) ==
    IF credentials = None THEN "absent"
    ELSE LET token == Get(credentials)
         IN IF token.sig # "good" THEN "bad_signature"
            ELSE IF token.sub = None THEN "no_sub"
            ELSE IF ~IsUuidText(Get(token.sub)) THEN "bad_sub"
            ELSE "ok"

PostResponse(op, status, user, id, credentials) ==
    [Response(op, status, user, id, {}) EXCEPT !.auth = CredentialClass(credentials)]

\* The texts a client sends as {post_identifier} or {slug}: the UUID text of
\* post p, or its slug.  Slugs are unique per post.
PostIdentifiers == {<<k, p>> : k \in {"uuid", "slug"}, p \in PostIds}

\* service layer, get_post_by_id
get_post_by_id(store, id) == IF id \in DOMAIN store THEN Some(id) ELSE None

\* service layer, get_post_by_slug
get_post_by_slug(store, slug) ==
    IF slug[1] = "slug" /\ slug[2] \in DOMAIN store THEN Some(slug[2]) ELSE None

\* posts.py update_existing_post / delete_existing_post: by UUID first, then
\* by slug.
ResolvePost(store, post_identifier) ==
    LET by_id == IF post_identifier[1] = "uuid"
                 THEN get_post_by_id(store, post_identifier[2])
                 ELSE None   \* ValueError: not a UUID
    IN IF by_id # None THEN by_id ELSE get_post_by_slug(store, post_identifier)

\* service layer, create_post: a new post of author user_id, never viewed.
create_post(store, id, user_id, post_data) ==
    [i \in DOMAIN store \cup {id} |->
        IF i = id
        THEN [author_id |-> user_id, title |-> post_data.title, view_count |-> 0]
        ELSE store[i]]

\* service layer, update_post: the author's changes to the post's fields.
update_post(store, id, user_id, post_data) ==
    IF id \in DOMAIN store /\ store[id].author_id = user_id
    THEN [store EXCEPT ![id].title = post_data.title]
    ELSE store

\* service layer, increment_view_count: one statement,
\* UPDATE posts SET view_count = view_count + 1 WHERE id = :id
increment_view_count(store, id) ==
    IF id \in DOMAIN store
    THEN [store EXCEPT ![id].view_count = @ + 1]
    ELSE store

\* service layer, list_posts / get_posts_by_author: the posts that pass the
\* filter, in a fixed order.
list_posts(store, author_filter) ==
    Ordered({p \in DOMAIN store :
               author_filter = None \/ store[p].author_id = Get(author_filter)})

PostFrame == UNCHANGED <<comments, walk, out>>

IdleReq == [pc |-> "idle", post |-> 0, loaded |-> 0, after |-> 0, sent |-> 0]

\* posts.py create_new_post (POST /posts/)
create_new_post(credentials, post_data) ==
    /\ next_post < MaxPosts
    /\ IF credentials = None
       THEN /\ resp' = PostResponse("create_new_post", HTTPBearerMissing, 0, 0,
                                    credentials)
            /\ UNCHANGED <<posts, next_post>>
       ELSE LET auth == get_current_user_id(Get(credentials))
            IN IF auth.status # 200
               THEN /\ resp' = PostResponse("create_new_post", auth.status, 0, 0,
                                            credentials)
                    /\ UNCHANGED <<posts, next_post>>
               ELSE /\ posts' = create_post(posts, next_post + 1, auth.user, post_data)
                    /\ next_post' = next_post + 1
                    /\ resp' = PostResponse("create_new_post", 200, auth.user,
                                            next_post + 1, credentials)
    /\ UNCHANGED reqs
    /\ PostFrame

\* posts.py update_existing_post (PUT /posts/{post_identifier}/)
update_existing_post(post_identifier, credentials, post_data) ==
    /\ IF credentials = None
       THEN /\ resp' = PostResponse("update_existing_post", HTTPBearerMissing, 0,
                                    post_identifier[2], credentials)
            /\ UNCHANGED posts
       ELSE LET auth == get_current_user_id(Get(credentials))
                post == ResolvePost(posts, post_identifier)
            IN IF auth.status # 200
               THEN /\ resp' = PostResponse("update_existing_post", auth.status, 0,
                                            post_identifier[2], credentials)
                    /\ UNCHANGED posts
               ELSE IF post = None
               THEN /\ resp' = PostResponse("update_existing_post", 404, auth.user,
                                            post_identifier[2], credentials)
                    /\ UNCHANGED posts
               ELSE IF posts[Get(post)].author_id # auth.user
               THEN /\ resp' = PostResponse("update_existing_post", 403, auth.user,
                                            Get(post), credentials)
                    /\ UNCHANGED posts
               ELSE /\ posts' = update_post(posts, Get(post), auth.user, post_data)
                    /\ resp' = PostResponse("update_existing_post", 200, auth.user,
                                            Get(post), credentials)
    /\ UNCHANGED <<next_post, reqs>>
    /\ PostFrame

\* posts.py delete_existing_post (DELETE /posts/{post_identifier}/)
delete_existing_post(post_identifier, credentials) ==
    /\ IF credentials = None
       THEN /\ resp' = PostResponse("delete_existing_post", HTTPBearerMissing, 0,
                                    post_identifier[2], credentials)
            /\ UNCHANGED posts
       ELSE LET auth == get_current_user_id(Get(credentials))
                post == ResolvePost(posts, post_identifier)
            IN IF auth.status # 200
               THEN /\ resp' = PostResponse("delete_existing_post", auth.status, 0,
                                            post_identifier[2], credentials)
                    /\ UNCHANGED posts
               ELSE IF post = None
               THEN /\ resp' = PostResponse("delete_existing_post", 404, auth.user,
                                            post_identifier[2], credentials)
                    /\ UNCHANGED posts
               ELSE IF posts[Get(post)].author_id # auth.user
               THEN /\ resp' = PostResponse("delete_existing_post", 403, auth.user,
                                            Get(post), credentials)
                    /\ UNCHANGED posts
               ELSE \* db.delete(post); db.commit()
                    /\ posts' = [i \in DOMAIN posts \ {Get(post)} |-> posts[i]]
                    /\ resp' = PostResponse("delete_existing_post", 200, auth.user,
                                            Get(post), credentials)
    /\ UNCHANGED <<next_post, reqs>>
    /\ PostFrame

\* list_all_posts as it would be if every listed post counted as viewed.
list_all_posts_counting(page, limit, author_id) ==
    /\ PostsQueryValid(page, limit)
    /\ IF author_id = None THEN TRUE ELSE IsUuidText(Get(author_id))
    /\ LET author_uuid == IF author_id # None
                          THEN Some(uuid_UUID(Get(author_id))) ELSE None
           r == PostsListing(list_posts(posts, author_uuid), page, limit)
       IN /\ resp' = Response("list_all_posts", 200, 0, 0, Range(r.items))
          /\ posts' = [p \in DOMAIN posts |->
                         IF p \in Range(r.items)
                         THEN [posts[p] EXCEPT !.view_count = @ + 1]
                         ELSE posts[p]]
    /\ UNCHANGED <<next_post, reqs>>
    /\ PostFrame

\* posts.py list_all_posts (GET /posts/); author_id is the query's text.
list_all_posts(page, limit, author_id) ==
    /\ IF ~PostsQueryValid(page, limit)
       THEN resp' = Response("list_all_posts", 422, 0, 0, {})
       ELSE IF author_id # None /\ ~IsUuidText(Get(author_id))
       THEN resp' = Response("list_all_posts", 500, 0, 0, {})   \* ValueError
       ELSE LET author_uuid == IF author_id # None
                               THEN Some(uuid_UUID(Get(author_id))) ELSE None
                r == PostsListing(list_posts(posts, author_uuid), page, limit)
            IN resp' = Response("list_all_posts", 200, 0, 0, Range(r.items))
    /\ UNCHANGED <<posts, next_post, reqs>>
    /\ PostFrame

\* posts.py get_posts_by_author_id (GET /posts/authors/{author_id}/posts)
get_posts_by_author_id(author_id, page, limit) ==
    /\ IF ~PostsQueryValid(page, limit)
       THEN resp' = Response("get_posts_by_author_id", 422, 0, 0, {})
       ELSE IF ~IsUuidText(author_id)
       THEN resp' = Response("get_posts_by_author_id", 500, 0, 0, {})   \* ValueError
       ELSE LET r == PostsListing(list_posts(posts, Some(uuid_UUID(author_id))),
                                  page, limit)
            IN resp' = Response("get_posts_by_author_id", 200, 0, 0, Range(r.items))
    /\ UNCHANGED <<posts, next_post, reqs>>
    /\ PostFrame

\* posts.py list_tags (GET /posts/tags): reads the tags only.
list_tags ==
    /\ resp' = Response("list_tags", 200, 0, 0, {})
    /\ UNCHANGED <<posts, next_post, reqs>>
    /\ PostFrame

\* posts.py get_post (GET /posts/{slug}/), first statement: load the post by
\* its slug, or answer 404.
get_post_load(r, slug) ==
    /\ reqs[r].pc = "idle"
    /\ LET post == get_post_by_slug(posts, slug)
       IN IF post = None
          THEN /\ resp' = Response("get_post", 404, 0, slug[2], {})
               /\ UNCHANGED reqs
          ELSE /\ reqs' = [reqs EXCEPT ![r] =
                              [IdleReq EXCEPT !.pc = "loaded", !.post = Get(post),
                                              !.loaded = posts[Get(post)].view_count]]
               /\ UNCHANGED resp
    /\ UNCHANGED <<posts, next_post>>
    /\ PostFrame

\* The increment as a read-modify-write of the loaded object
\* (post.view_count += 1; db.commit()).
get_post_increment_stale(r) ==
    /\ reqs[r].pc = "loaded"
    /\ posts' = IF reqs[r].post \in DOMAIN posts
                THEN [posts EXCEPT ![reqs[r].post].view_count = reqs[r].loaded + 1]
                ELSE posts
    /\ reqs' = [reqs EXCEPT ![r].pc = "incremented",
                            ![r].after = IF reqs[r].post \in DOMAIN posts'
                                         THEN posts'[reqs[r].post].view_count
                                         ELSE 0]
    /\ UNCHANGED <<resp, next_post>>
    /\ PostFrame

\* get_post, second statement: increment_view_count(db, post.id)
get_post_increment(r) ==
    /\ reqs[r].pc = "loaded"
    /\ posts' = increment_view_count(posts, reqs[r].post)
    /\ reqs' = [reqs EXCEPT ![r].pc = "incremented",
                            ![r].after = IF reqs[r].post \in DOMAIN posts'
                                         THEN posts'[reqs[r].post].view_count
                                         ELSE 0]
    /\ UNCHANGED <<resp, next_post>>
    /\ PostFrame

\* get_post, the response: "view_count": post.view_count + 1, from the post
\* as loaded.
get_post_respond(r) ==
    /\ reqs[r].pc = "incremented"
    /\ reqs' = [reqs EXCEPT ![r].pc = "done", ![r].sent = reqs[r].loaded + 1]
    /\ resp' = Response("get_post", 200, 0, reqs[r].post, {reqs[r].loaded + 1})
    /\ UNCHANGED <<posts, next_post>>
    /\ PostFrame

PostBodies == [title : Titles]
AuthorTexts == UuidStrings \cup {JunkText}

PostInit ==
    /\ comments = <<>>
    /\ posts = <<>>
    /\ next_post = 0
    /\ reqs = [r \in Reqs |-> IdleReq]
    /\ resp = NoResponse
    /\ walk = IdleWalk
    /\ out = NoOut

PostNext ==
    \/ \E c \in Credentials, b \in PostBodies : create_new_post(c, b)
    \/ \E i \in PostIdentifiers, c \in Credentials, b \in PostBodies :
          update_existing_post(i, c, b)
    \/ \E i \in PostIdentifiers, c \in Credentials : delete_existing_post(i, c)
    \/ \E page \in 1 .. 2, limit \in {0, 1, 20, 101},
          a \in {None} \cup {Some(t) : t \in AuthorTexts} :
          list_all_posts(page, limit, a)
    \/ \E a \in AuthorTexts, page \in 1 .. 2, limit \in {0, 1, 20, 101} :
          get_posts_by_author_id(a, page, limit)
    \/ list_tags
    \/ \E r \in Reqs, p \in PostIds : get_post_load(r, <<"slug", p>>)
    \/ \E r \in Reqs : get_post_increment(r)
    \/ \E r \in Reqs : get_post_respond(r)

PostSpec == PostInit /\ [][PostNext]_vars

---------------------------------------------------------------------------
(* Ownership: the four mutating handlers on a stored comment and a stored   *)
(* post, from every state of the two records                                *)

AuthInit ==
    /\ comments \in [{1} -> [post_id : {1}, author_id : Users, parent_id : {None},
                             content : Contents, is_deleted : BOOLEAN,
                             edited_at : {None} \cup {Some(t) : t \in Times}]]
    /\ posts \in [{1} -> [author_id : Users, title : Titles, view_count : {0}]]
    /\ next_post = 1
    /\ reqs = [r \in Reqs |-> IdleReq]
    /\ resp = NoResponse
    /\ walk = IdleWalk
    /\ out = NoOut

AuthNext ==
    \/ \E c \in {1}, sub \in UuidStrings, b \in UpdateBodies, t \in Times :
          update_comment(c, sub, b, t)
    \/ \E c \in {1}, sub \in UuidStrings : delete_comment(c, sub)
    \/ \E i \in PostIdentifiers, c \in Credentials, b \in PostBodies :
          update_existing_post(i, c, b)
    \/ \E i \in PostIdentifiers, c \in Credentials : delete_existing_post(i, c)

AuthSpec == AuthInit /\ [][AuthNext]_vars

---------------------------------------------------------------------------
(* Reply-tree assembly, one call of build_comment_tree per step, over every *)
(* content of the comments table (parent_id has no constraint: models.py)   *)

RecursionLimit == 4     \* the interpreter's limit on nested calls, scaled down

StoredComments ==
    [1 .. MaxComments ->
        [post_id : {1}, author_id : {1},
         parent_id : {None} \cup {Some(c) : c \in 0 .. MaxComments},
         content : {"a"}, is_deleted : BOOLEAN, edited_at : {None}]]

Frame(store, id) == [id |-> id, todo |-> Ordered(Replies(store, id))]

TreeVarsFrame == UNCHANGED <<comments, posts, next_post, reqs, out>>

\* comments.py get_comment with include_replies: the outermost call
\* service.build_comment_tree(comment)
tree_start(comment_id) ==
    /\ walk.pc = "idle"
    /\ IF get_by_id(comments, comment_id) = None
       THEN /\ resp' = Response("get_comment", 404, 0, comment_id, {})
            /\ UNCHANGED walk
       ELSE /\ walk' = [pc |-> "walking",
                        stack |-> <<Frame(comments, comment_id)>>,
                        visits |-> [c \in DOMAIN comments |->
                                      IF c = comment_id THEN 1 ELSE 0]]
            /\ UNCHANGED resp
    /\ TreeVarsFrame

\* build_comment_tree calls itself on the next reply of the comment at hand.
tree_call ==
    /\ walk.pc = "walking"
    /\ LET top == walk.stack[Len(walk.stack)]
       IN /\ top.todo # <<>>
          /\ Len(walk.stack) < RecursionLimit
          /\ LET child == Head(top.todo)
             IN walk' = [walk EXCEPT
                   !.stack = Append([walk.stack EXCEPT
                                        ![Len(walk.stack)].todo = Tail(top.todo)],
                                    Frame(comments, child)),
                   !.visits[child] = @ + 1]
    /\ UNCHANGED resp
    /\ TreeVarsFrame

\* The nested call that exceeds the interpreter's limit raises
\* RecursionError; the request ends with 500.
tree_overflow ==
    /\ walk.pc = "walking"
    /\ walk.stack[Len(walk.stack)].todo # <<>>
    /\ Len(walk.stack) = RecursionLimit
    /\ walk' = [walk EXCEPT !.pc = "RecursionError"]
    /\ resp' = Response("get_comment", 500, 0, walk.stack[1].id, {})
    /\ TreeVarsFrame

\* build_comment_tree returns once every reply of its comment is assembled;
\* the outermost return is the response.
tree_return ==
    /\ walk.pc = "walking"
    /\ walk.stack[Len(walk.stack)].todo = <<>>
    /\ IF Len(walk.stack) = 1
       THEN /\ walk' = [walk EXCEPT !.pc = "done", !.stack = <<>>]
            /\ resp' = Response("get_comment", 200, 0, walk.stack[1].id,
                                {c \in DOMAIN walk.visits : walk.visits[c] > 0})
       ELSE /\ walk' = [walk EXCEPT !.stack = SubSeq(walk.stack, 1, Len(walk.stack) - 1)]
            /\ UNCHANGED resp
    /\ TreeVarsFrame

TreeInit ==
    /\ comments \in StoredComments
    /\ posts = <<>>
    /\ next_post = 0
    /\ reqs = <<>>
    /\ resp = NoResponse
    /\ walk = IdleWalk
    /\ out = NoOut

TreeNext ==
    \/ \E c \in 1 .. MaxComments : tree_start(c)
    \/ tree_call
    \/ tree_overflow
    \/ tree_return

TreeSpec == TreeInit /\ [][TreeNext]_vars

---------------------------------------------------------------------------
(* Pagination: the listing handlers on a query that matches `total` rows    *)

MaxTotal == 40
MaxPage == 3
MaxPageSize == 100      \* Query(20, ge=1, le=100)

Rows(total) == [i \in 1 .. total |-> i]

PageFrame == UNCHANGED <<comments, posts, next_post, reqs, resp, walk>>

\* GET /comments/post/{post_id}?page=&page_size=
page_comments(total, page, page_size) ==
    /\ out' = IF ~CommentsQueryValid(page, page_size)
              THEN [op |-> "get_comments_by_post", status |-> 422,
                    page |-> page, size |-> page_size, total |-> total]
              ELSE LET r == CommentsListing(Rows(total), page, page_size)
                   IN [op |-> "get_comments_by_post", status |-> 200,
                       page |-> page, size |-> page_size, total |-> total,
                       items |-> r.data, r_total |-> r.total,
                       total_pages |-> r.total_pages,
                       has_next |-> None, has_prev |-> None]
    /\ PageFrame

\* GET /posts/?page=&limit= and GET /posts/authors/{author_id}/posts
page_posts(op, total, page, limit) ==
    /\ out' = IF ~PostsQueryValid(page, limit)
              THEN [op |-> op, status |-> 422,
                    page |-> page, size |-> limit, total |-> total]
              ELSE LET r == PostsListing(Rows(total), page, limit)
                   IN [op |-> op, status |-> 200,
                       page |-> page, size |-> limit, total |-> total,
                       items |-> r.items, r_total |-> r.pagination.total,
                       total_pages |-> r.pagination.total_pages,
                       has_next |-> Some(r.pagination.has_next),
                       has_prev |-> Some(r.pagination.has_prev)]
    /\ PageFrame

PageInit ==
    /\ comments = <<>>
    /\ posts = <<>>
    /\ next_post = 0
    /\ reqs = <<>>
    /\ resp = NoResponse
    /\ walk = IdleWalk
    /\ out = NoOut

\* One request per behaviour: every listing is examined on its own.
PageNext ==
    \/ /\ out = NoOut
       /\ \E t \in 0 .. MaxTotal, p \in 0 .. MaxPage, s \in 0 .. MaxPageSize + 1 :
             page_comments(t, p, s)
    \/ /\ out = NoOut
       /\ \E op \in {"list_all_posts", "get_posts_by_author_id"},
             t \in 0 .. MaxTotal, p \in 0 .. MaxPage, s \in 0 .. MaxPageSize + 1 :
             page_posts(op, t, p, s)

PageSpec == PageInit /\ [][PageNext]_vars

---------------------------------------------------------------------------
(* schemas.py CommentInDB and its validator *)

\* datetime values: the fields the display format reads, and the seconds it
\* does not.
DateTimes == [hour : {0, 1, 12, 13}, minute : {4, 59}, second : {0, 30}]

\* strftime('%b %d, %Y %I:%M %p') behind the "edited - " prefix: the 12-hour
\* clock hour, the minute and AM/PM (the date part is the same for all
\* DateTimes here).
strftime(dt) ==
    <<"edited - ",
      IF dt.hour % 12 = 0 THEN 12 ELSE dt.hour % 12,
      dt.minute,
      IF dt.hour < 12 THEN "AM" ELSE "PM">>

\* CommentInDB.compute_edited_flag (model_validator, mode="after")
compute_edited_flag(self) ==
    LET edited == self.edited_at # None
    IN [self EXCEPT
          !.edited = edited,
          !.edited_at_formatted =
              IF self.edited_at # None
              THEN Some(strftime(Get(self.edited_at)))
              ELSE @]

\* The values a CommentInDB is constructed from: edited_at, and the two
\* fields with defaults (edited = False, edited_at_formatted = None).
CommentInDBInputs ==
    [edited_at : {None} \cup {Some(d) : d \in DateTimes},
     edited : BOOLEAN,
     edited_at_formatted :
        {None} \cup {Some(strftime(d)) : d \in DateTimes}]

\* CommentInDB(**fields) / CommentInDB.model_validate(row)
CommentInDB(fields) ==
    /\ out' = [op |-> "CommentInDB", fields |-> fields,
               model |-> compute_edited_flag(fields)]
    /\ UNCHANGED <<comments, posts, next_post, reqs, resp, walk>>

SchemaInit == PageInit

SchemaNext == \E f \in CommentInDBInputs : CommentInDB(f)

SchemaSpec == SchemaInit /\ [][SchemaNext]_vars

---------------------------------------------------------------------------
(* Properties *)

CommentMutations == {"update_comment", "delete_comment"}
PostMutations == {"create_new_post", "update_existing_post", "delete_existing_post"}
CommentCreations == {"create_comment", "create_comment_by_post"}
PostListings == {"list_all_posts", "get_posts_by_author_id"}

\* The step answers a well-formed update or delete of a stored comment by an
\* authenticated caller who is not its author.
NonAuthorCommentRequest ==
    /\ resp'.op \in CommentMutations
    /\ resp'.status # 422
    /\ resp'.id \in DOMAIN comments
    /\ comments[resp'.id].author_id # resp'.user

\* The step answers an update or delete of a stored post by an authenticated
\* caller who is not its author.
NonAuthorPostRequest ==
    /\ resp'.op \in PostMutations
    /\ resp'.auth = "ok"
    /\ resp'.id \in DOMAIN posts
    /\ posts[resp'.id].author_id # resp'.user

InFlightOrDone(p) ==
    {r \in Reqs : reqs[r].post = p /\ reqs[r].pc \in {"incremented", "done"}}

C3_OnlyGetPostCounts ==
    [][\A p \in DOMAIN posts \cap DOMAIN posts' :
          posts'[p].view_count # posts[p].view_count =>
             \E r \in Reqs : /\ reqs[r].pc = "loaded"
                             /\ reqs'[r].pc = "incremented"
                             /\ reqs[r].post = p]_vars

\* A listing returned a post that has been viewed.
C3_Witness ==
    /\ resp.op \in PostListings
    /\ resp.status = 200
    /\ \E p \in resp.data : p \in DOMAIN posts /\ posts[p].view_count > 0

C4_Stored ==
    (resp.op \in CommentCreations /\ resp.status = 200) =>
        /\ resp.id \in DOMAIN comments
        /\ comments[resp.id].author_id = resp.user

C4_Kept ==
    \A c \in DOMAIN comments :
        c \in DOMAIN comments' => comments'[c].author_id = comments[c].author_id

\* C4: the comment a successful create_comment / create_comment_by_post
\* stores has the authenticated caller as author_id, whatever the request
\* body carries, and no later request changes a stored author_id.
C4_AuthorIsCaller == []C4_Stored /\ [][C4_Kept]_vars

\* A comment was created from a body that names another user as author_id.
C4_Witness ==
    /\ resp.op \in CommentCreations
    /\ resp.status = 200
    /\ resp.extra # None
    /\ Get(resp.extra) # resp.user

C5_Hidden ==
    \A d \in DOMAIN comments :
        comments[d].is_deleted =>
            /\ \A p \in CommentPosts :
                  /\ d \notin Range(ActiveOfPost(comments, p))
                  /\ CommentCount(comments, p) =
                       Cardinality({c \in DOMAIN comments \ {d} :
                                      comments[c].post_id = p /\ ~comments[c].is_deleted})
            /\ \A c \in DOMAIN comments :
                  get_by_id(comments, c) # None => d \notin build_comment_tree(comments, c)
            /\ (resp.op \in {"get_comments_by_post", "get_comment"} /\ resp.status = 200)
                  => d \notin resp.data

C5_Retained ==
    \A c \in DOMAIN comments :
        /\ c \in DOMAIN comments'
        /\ comments'[c].parent_id = comments[c].parent_id

C6_BoundedTraversal ==
    /\ walk.pc # "RecursionError"
    /\ \A c \in DOMAIN walk.visits : walk.visits[c] <= 1

\* ceil(a / b), from its definition.
CeilDiv(a, b) == CHOOSE k \in 0 .. a : k * b >= a /\ (k = 0 \/ (k - 1) * b < a)

C7_Common ==
    /\ (out.size < 1 \/ out.size > MaxPageSize) => out.status = 422
    /\ (out.page >= 1 /\ out.size >= 1 /\ out.size <= MaxPageSize) => out.status = 200
    /\ out.status = 200 =>
          /\ out.r_total = out.total
          /\ out.total_pages = CeilDiv(out.total, out.size)
          /\ out.page > out.total_pages => out.items = <<>>

\* C7 as stated: total_pages = ceil(total / page_size), a page size outside
\* 1..100 is rejected, and a page beyond total_pages is an empty page with the
\* same total and total_pages, has_next false and has_prev true.
C7_BeyondLastHasPrev ==
    out.op # "none" =>
        /\ C7_Common
        /\ (out.status = 200 /\ out.has_next # None /\ out.page > out.total_pages) =>
              /\ out.has_next = Some(FALSE)
              /\ out.has_prev = Some(TRUE)

\* C7, amended: as stated, but has_prev (which only the post listings
\* report) is true exactly when page > 1: page 1 of an empty listing is
\* beyond total_pages = 0 and has no previous page.
C7_Pagination ==
    out.op # "none" =>
        /\ C7_Common
        /\ (out.status = 200 /\ out.has_next # None /\ out.page > out.total_pages) =>
              /\ out.has_next = Some(FALSE)
              /\ out.has_prev = Some(out.page > 1)

\* A post listing was asked for a page beyond the last of a non-empty result.
C7_Witness ==
    /\ out.op = "list_all_posts"
    /\ out.status = 200
    /\ out.total > 0
    /\ out.page > out.total_pages

InvalidCredentials == {"absent", "bad_signature", "no_sub", "bad_sub"}

\* C8: a create, update or delete of a post whose token is absent, fails
\* verification, has no sub, or has a sub that is no user id is answered 401
\* and changes no post.
C8_InvalidTokenIs401 ==
    (resp.op \in PostMutations /\ resp.auth \in InvalidCredentials) =>
        resp.status = 401

\* C9: the CommentInDB built has edited true iff edited_at is set, and
\* edited_at_formatted fixed by edited_at alone: null without edited_at, its
\* formatted text otherwise, whatever the input carried in the two fields.
C9_EditedFromEditedAt ==
    out.op = "CommentInDB" =>
        /\ out.model.edited = (out.fields.edited_at # None)
        /\ out.model.edited_at_formatted =
             IF out.fields.edited_at = None THEN None
             ELSE Some(strftime(Get(out.fields.edited_at)))

\* C10: the view_count a get_post response carries is the stored view_count
\* right after that request's own increment, so two fetches of one post never
\* report the same value.
C10_ReportsStoredCount ==
    /\ \A r \in Reqs :
          (reqs[r].pc = "done" /\ reqs[r].after > 0) => reqs[r].sent = reqs[r].after
    /\ \A r1, r2 \in Reqs :
          (/\ r1 # r2
           /\ reqs[r1].pc = "done" /\ reqs[r2].pc = "done"
           /\ reqs[r1].post = reqs[r2].post
           /\ reqs[r1].after > 0 /\ reqs[r2].after > 0)
          => reqs[r1].sent # reqs[r2].sent

====
